---------------------------- MODULE Spec2Model ----------------------------
(***************************************************************************)
(* The ACP session driver of examples/acp: ACPClient (acp_client.py) and   *)
(* AdvancedACPClient (advanced_acp_client.py), their reader thread, the    *)
(* agent subprocess on the other end of the pipes, and the main()          *)
(* programs that drive them; the CodeReviewHarness of                      *)
(* code_review_harness.py; the MultiAgentCoordinator of                    *)
(* multi_agent_coordinator.py.                                             *)
(*                                                                         *)
(* Time is counted in ticks of 30 seconds: queue.get(timeout=30.0) is one  *)
(* tick, queue.get(timeout=60.0) two, send_prompt's default timeout of     *)
(* 120.0 four.                                                             *)
(***************************************************************************)
EXTENDS Integers, Sequences, FiniteSets, TLC

VARIABLES
    variant,        \* "simple" (ACPClient) or "advanced" (AdvancedACPClient)
    driver,         \* who calls the client: "main", "interactive", "free"
    scenario,       \* what the peer may write: "lifecycle", "text", "tools",
                    \* "late", "odd", "stream"
    process,        \* self.process: "None" or "Popen"
    peer,           \* the subprocess: "none", "alive", "exited"
    wire,           \* lines in the subprocess's stdout pipe, not yet read
    emitted,        \* history: number of lines the peer has written
    textLog,        \* history: the text of every text chunk the peer wrote
    response_queue, \* self.response_queue
    readerpc,       \* the reader thread: "none", "check", "read", "done"
    running,        \* self.running (AdvancedACPClient only)
    message_id,     \* self.message_id
    session_id,     \* self.session_id: "None" or the id
    pc,             \* where the caller's thread is
    waited,         \* ticks spent in the current queue.get
    elapsed,        \* ticks since start_time (AdvancedACPClient.send_prompt)
    timeout,        \* send_prompt's timeout argument, in ticks
    response_text,  \* send_prompt's local list
    tool_calls,     \* send_prompt's local dict: tool id -> status
    ret,            \* the last call that returned: operation, value, cause
    sent,           \* history: messages written to the subprocess's stdin
    issued,         \* history: the ids get_next_id has returned
    signals,        \* history: terminate/kill calls made by shutdown
    mainpc,         \* main(): the statement main is at
    calls,          \* number of client methods called so far
    sdCalls,        \* number of shutdown() invocations so far
    sdInfo,         \* about the shutdown in progress or last run
    textDeq,        \* history: text chunks taken off response_queue so far
    resolved,       \* history: ids of the responses taken off the queue
    turnStart,      \* history: textDeq when the current turn was started
    turnText,       \* history: response_text when the last turn returned
    badAt,          \* history: which of the lines written were not JSON
    turnFrom,       \* history: Len(textLog) when the turn's prompt was sent
    oldReaders,     \* reader threads of earlier start_acp_server calls that
                    \* have not finished
    tasks,          \* MultiAgentCoordinator: the execute_task coroutines
                    \* given to asyncio.gather, by position
    results,        \* what each of these coroutines returned or raised
    started,        \* history: agent ids in the order execute_task began
    finished,       \* history: positions in the order the coroutines ended
    specialist_results, \* execute_project_analysis's local
    coordinator_result, \* execute_project_analysis's local
    execution_summary   \* the "execution_summary" of the returned dict

vars == <<variant, driver, scenario, process, peer, wire, emitted, textLog,
          response_queue, readerpc, running, message_id, session_id, pc,
          waited, elapsed, timeout, response_text, tool_calls, ret, sent,
          issued, signals, mainpc, calls, sdCalls, sdInfo, textDeq, resolved,
          turnStart, turnFrom, turnText, badAt, oldReaders, tasks, results,
          started, finished, specialist_results, coordinator_result,
          execution_summary>>

\* the variables of the MultiAgentCoordinator
coordVars ==
    <<tasks, results, started, finished, specialist_results,
      coordinator_result, execution_summary>>

\* an AgentResult (kind "AgentResult") or an exception object
ResultObject(kind, agent_id, task_id, success, error) ==
    [kind |-> kind, agent_id |-> agent_id, task_id |-> task_id,
     success |-> success, error |-> error]

\* no result yet
NoResult == ResultObject("None", "", "", FALSE, "")

NoSummary == [total_agents |-> 0, successful_tasks |-> 0]

\* no MultiAgentCoordinator exists
NoCoordinator ==
    /\ tasks = <<>>
    /\ results = <<>>
    /\ started = <<>>
    /\ finished = <<>>
    /\ specialist_results = <<>>
    /\ coordinator_result = NoResult
    /\ execution_summary = NoSummary

---------------------------------------------------------------------------
(* Bounds of the model. *)

\* lines the peer writes in one run of main(), or during the turns
MaxEmit == 3

\* lines the peer writes while the client is driven method by method
MaxApiEmit == 2

\* client methods called in one run when driven method by method
MaxCalls == 3

\* prompts sent on an established session
MaxPrompts == 1

\* the latest reading (in ms) of the clock CodeReviewHarness takes ids from
MaxClock == 3

(* Program constants, in ticks of 30 seconds. *)

\* wait_for_response's default timeout=30.0
ResponseWait == 1

\* ACPClient.send_prompt: wait_for_response(timeout=60.0)
PromptWaitSimple == 2

\* AdvancedACPClient.send_prompt: wait_for_response(timeout=30.0)
PromptWaitAdvanced == 1

\* AdvancedACPClient.send_prompt(prompt_text, timeout=120.0)
DefaultTimeout == 4

---------------------------------------------------------------------------
(* Lines and messages.  A line is what the peer writes; a message is what  *)
(* json.loads makes of it.  k is the shape: "result"/"error" carry an id,  *)
(* the session/update notifications carry none (id 0); c is the text of the *)
(* nested content block of a tool_call_update.                             *)

Line(k, id, a, b) == [k |-> k, id |-> id, a |-> a, b |-> b, c |-> ""]

Result(id, member, value) == Line("result", id, member, value)

ErrorResponse(id) == Line("error", id, "", "")

Chunk(type, text) == Line("agent_message_chunk", 0, type, text)

ToolCall(tid) == Line("tool_call", 0, tid, "")

\* the text a completed tool call reports in its content block
ToolResultText == "42"

ToolCallUpdate(tid, status) ==
    [Line("tool_call_update", 0, tid, status) EXCEPT
        !.c = IF status = "completed" THEN ToolResultText ELSE ""]

Plan == Line("plan", 0, "", "")

NotJson == Line("not json", 0, "", "")

\* a line that is valid JSON but not an object: a quoted string, a number
NonObject(type) == Line("non_object", 0, type, "")

ToolIds == {"t1"}

Statuses == {"in_progress", "completed", "failed"}

NoToolCalls == [t \in ToolIds |-> "absent"]

\* what the peer may write during startup, handshake and shutdown
LifecycleLines ==
    {Result(1, "agentInfo", ""), Result(2, "sessionId", "s1"),
     Result(3, "stopReason", "end_turn"), ErrorResponse(2),
     Chunk("text", "a")}

\* what the peer may write during a turn that streams text
TextLines ==
    {Chunk("text", "a"), Chunk("text", "b"), Chunk("image", ""), NotJson,
     Result(3, "stopReason", "end_turn"), ErrorResponse(3)}

\* what the peer may write during a turn that runs a tool
ToolLines ==
    {ToolCall("t1"), Plan, Result(3, "stopReason", "end_turn")}
        \cup {ToolCallUpdate("t1", s) : s \in Statuses}

\* what the peer may write after the turn of prompt 3 was given up: what
\* is left of that turn, the answer to prompt 4, a response to no request
LateLines ==
    {Chunk("text", "a"), Result(3, "stopReason", "end_turn"),
     ErrorResponse(3), Result(4, "stopReason", "end_turn"),
     Result(9, "stopReason", "end_turn")}

\* what the peer may write during a turn whose lines are valid JSON of
\* unusual content: stop reasons of any value, values that are not objects
OddLines ==
    {Chunk("text", "a"), Result(3, "stopReason", "end_turn"),
     Result(3, "stopReason", "made_up"), Result(3, "stopReason", ""),
     NonObject("string"), NonObject("number")}

\* the responses the peer may write during a turn in which it streams
\* notifications without end
StreamLines == {Result(3, "stopReason", "end_turn"), ErrorResponse(3)}

PeerLines ==
    CASE scenario = "text" -> TextLines
      [] scenario = "stream" -> StreamLines
      [] scenario = "odd" -> OddLines
      [] scenario = "tools" -> ToolLines
      [] scenario = "late" -> LateLines
      [] OTHER -> LifecycleLines

\* lines the peer writes in one run
EmitBound ==
    IF driver = "free" /\ scenario = "lifecycle" THEN MaxApiEmit ELSE MaxEmit

\* the timeout arguments (in ticks) callers pass to send_prompt
TimeoutArgs == {1, 2}

IsTextChunk(m) == m.k = "agent_message_chunk" /\ m.a = "text"

\* json.loads(line): raises JSONDecodeError on a line that is not JSON
IsJson(line) == line.k # "not json"

\* a message written to the subprocess; sid is params.sessionId ("" in
\* the messages that have none)
Request(method, id) == [method |-> method, id |-> id, sid |-> ""]

\* a session/prompt request that leaves the session id out
PromptRequestNoSession(id, sid) == Request("session/prompt", id)

\* the session/prompt request: params.sessionId is self.session_id
PromptRequest(id, sid) ==
    [Request("session/prompt", id) EXCEPT !.sid = sid]

\* {"jsonrpc": "2.0", "method": "exit"}: a notification, no id
ExitMessage == Request("exit", 0)

---------------------------------------------------------------------------
(* The caller's side: bookkeeping shared by every method. *)

WaitPcs == {"init_wait", "sess_wait", "turn_wait"}

MainDrivers == {"main", "interactive"}

\* main() with "return 1" on a failed step placed outside the try block
AfterReturnNoFinally(at, val) ==
    CASE at = "shutdown" -> "done"
      [] val = "raise" -> "shutdown"
      [] at = "interactive" -> "interactive"
      [] val # "True" -> "done"
      [] at = "start" -> "initialize"
      [] at = "initialize" -> "create_session"
      [] at = "create_session" ->
            IF driver = "interactive" THEN "interactive" ELSE "send_prompt"
      [] OTHER -> "shutdown"

\* main(): the statement reached when a call made at `at` returns val
\* (an exception raised by the call leaves interactive_mode too)
AfterReturn(at, val) ==
    CASE at = "shutdown" -> "done"
      [] val = "raise" -> "shutdown"
      [] at = "interactive" -> "interactive"
      [] val # "True" -> "shutdown"
      [] at = "start" -> "initialize"
      [] at = "initialize" -> "create_session"
      [] at = "create_session" ->
            IF driver = "interactive" THEN "interactive" ELSE "send_prompt"
      [] OTHER -> "shutdown"

\* history: the id of the message a waiting method has just dequeued
\* (0: a notification), or -1 when it returns without one
DecidedBy ==
    IF pc \in WaitPcs /\ response_queue # <<>>
    THEN Head(response_queue).id ELSE -1

\* history: the shape of the message a waiting method has just dequeued
DecidedKind ==
    IF pc \in WaitPcs /\ response_queue # <<>>
    THEN Head(response_queue).k ELSE "none"

\* a stop reason checked against the values the protocol names
stop_reason_known ==
    IF Head(response_queue).b \in {"end_turn", "max_tokens", "cancelled"}
    THEN Head(response_queue).b ELSE "unknown"

\* stop_reason = response["result"]["stopReason"], which send_prompt prints
\* in "Turn completed (reason: ...)"
stop_reason == Head(response_queue).b

\* a method returns (or raises) to its caller; its locals are gone; reason
\* is the stop reason it printed, if it printed one
ReturnWith(op, val, why, text) ==
    /\ pc' = "idle"
    /\ ret' = [op |-> op, val |-> val, why |-> why, by |-> DecidedBy,
               dup |-> DecidedBy \in resolved, k |-> DecidedKind,
               reason |-> IF why = "stop" THEN stop_reason ELSE "none"]
    /\ mainpc' = IF driver \in MainDrivers THEN AfterReturn(mainpc, val)
                 ELSE mainpc
    /\ turnText' = IF op = "send_prompt" THEN text ELSE turnText
    /\ response_text' = <<>>
    /\ tool_calls' = NoToolCalls
    /\ waited' = 0
    /\ elapsed' = 0
    /\ timeout' = 0

Return(op, val, why) == ReturnWith(op, val, why, response_text)

\* the caller is between calls and may make this one
MayCall(op) ==
    /\ pc = "idle"
    /\ \/ driver = "free" /\ scenario = "lifecycle" /\ calls < MaxCalls
       \/ driver = "free" /\ scenario # "lifecycle" /\ calls < MaxPrompts
       \/ driver \in MainDrivers /\ mainpc = op
       \/ driver = "interactive" /\ mainpc = "interactive"
                                 /\ op = "send_prompt"
                                 /\ message_id < 2 + MaxPrompts

\* get_next_id with ids that wrap around after the second
get_next_id_wrapping == (message_id % 2) + 1

\* get_next_id: the value it returns, which is also the new message_id
get_next_id == message_id + 1

\* send_message would write: a process with a stdin whose reader lives
\* (a write to the pipe of an exited process raises BrokenPipeError,
\* which send_message catches)
CanSend == process = "Popen" /\ peer = "alive"

\* queue.Queue.put
QueuePut(q, m) == Append(q, m)

---------------------------------------------------------------------------
(* The subprocess. *)

PeerEmit ==
    /\ peer = "alive"
    /\ mainpc # "done"
    /\ emitted < EmitBound
    /\ wire = <<>>
    /\ \E line \in PeerLines :
          /\ wire' = Append(wire, line)
          /\ emitted' = emitted + 1
          /\ textLog' = IF IsTextChunk(line) THEN Append(textLog, line.b)
                        ELSE textLog
          /\ badAt' = IF IsJson(line) THEN badAt ELSE badAt \cup {emitted'}
    /\ UNCHANGED <<coordVars, variant, driver, scenario, process, peer,
                   response_queue, readerpc, running, message_id, session_id,
                   pc, waited, elapsed, timeout, response_text, tool_calls,
                   ret, sent, issued, signals, mainpc, calls, sdCalls, sdInfo,
                   textDeq, resolved, turnStart, turnFrom, turnText,
                   oldReaders>>

\* the subprocess writes one more session/update notification (a plan) of
\* a stream that need not end, one tick after the caller took the last one
PeerStream ==
    /\ peer = "alive"
    /\ scenario = "stream"
    /\ pc = "turn_wait"
    /\ waited > 0
    /\ wire = <<>>
    /\ response_queue = <<>>
    /\ wire' = <<Plan>>
    /\ UNCHANGED <<coordVars, variant, driver, scenario, process, peer,
                   emitted, textLog, response_queue, readerpc, running,
                   message_id, session_id, pc, waited, elapsed, timeout,
                   response_text, tool_calls, ret, sent, issued, signals,
                   mainpc, calls, sdCalls, sdInfo, textDeq, resolved,
                   turnStart, turnFrom, turnText, badAt, oldReaders>>

PeerExit ==
    /\ peer = "alive"
    /\ mainpc # "done"
    /\ peer' = "exited"
    /\ UNCHANGED <<coordVars, variant, driver, scenario, process, wire,
                   emitted, textLog, response_queue, readerpc, running,
                   message_id, session_id, pc, waited, elapsed, timeout,
                   response_text, tool_calls, ret, sent, issued, signals,
                   mainpc, calls, sdCalls, sdInfo, textDeq, resolved,
                   turnStart, turnFrom, turnText, badAt, oldReaders>>

---------------------------------------------------------------------------
(* The reader thread, _read_responses. *)

\* the while condition
ReaderGoesOn ==
    /\ variant = "advanced" => running
    /\ process = "Popen"
    /\ peer = "alive"

\* a reader that terminates the subprocess when it leaves its loop
ReaderCheckTerminates ==
    /\ readerpc = "check"
    /\ mainpc # "done"
    /\ readerpc' = IF ReaderGoesOn THEN "read" ELSE "done"
    /\ signals' = IF ReaderGoesOn THEN signals
                  ELSE Append(signals, [sig |-> "terminate", sd |-> sdCalls,
                                        exitWritten |-> FALSE,
                                        alive |-> peer = "alive"])
    /\ UNCHANGED <<coordVars, variant, driver, scenario, process, peer, wire,
                   emitted, textLog, response_queue, running, message_id,
                   session_id, pc, waited, elapsed, timeout, response_text,
                   tool_calls, ret, sent, issued, mainpc, calls, sdCalls,
                   sdInfo, textDeq, resolved, turnStart, turnFrom, turnText,
                   badAt, oldReaders>>

ReaderCheck ==
    /\ readerpc = "check"
    /\ mainpc # "done"
    /\ readerpc' = IF ReaderGoesOn THEN "read" ELSE "done"
    /\ UNCHANGED <<coordVars, variant, driver, scenario, process, peer, wire,
                   emitted, textLog, response_queue, running, message_id,
                   session_id, pc, waited, elapsed, timeout, response_text,
                   tool_calls, ret, sent, issued, signals, mainpc, calls,
                   sdCalls, sdInfo, textDeq, resolved, turnStart, turnFrom,
                   turnText, badAt, oldReaders>>

\* a reader whose loop is left by the JSONDecodeError
AfterLineStrict(line) == IF IsJson(line) THEN "check" ELSE "done"

\* where the reader goes after a line: JSONDecodeError is caught inside
\* the loop, so back to the while condition either way
AfterLine(line) == "check"

\* readline() returns a line, or "" at end of file; it blocks otherwise
ReaderRead ==
    /\ readerpc = "read"
    /\ mainpc # "done"
    /\ \/ /\ wire # <<>>
          /\ wire' = Tail(wire)
          /\ response_queue' = IF IsJson(Head(wire))
                               THEN QueuePut(response_queue, Head(wire))
                               ELSE response_queue
          /\ readerpc' = AfterLine(Head(wire))
       \/ /\ wire = <<>>
          /\ peer = "exited"
          /\ readerpc' = "check"
          /\ UNCHANGED <<wire, response_queue>>
    /\ UNCHANGED <<coordVars, variant, driver, scenario, process, peer,
                   emitted, textLog, running, message_id, session_id, pc,
                   waited, elapsed, timeout, response_text, tool_calls, ret,
                   sent, issued, signals, mainpc, calls, sdCalls, sdInfo,
                   textDeq, resolved, turnStart, turnFrom, turnText, badAt,
                   oldReaders>>

---------------------------------------------------------------------------
(* start_acp_server. *)

\* Popen(...): the executable is missing (FileNotFoundError), or it starts
StartSpawn ==
    /\ MayCall("start")
    /\ process = "None"
    /\ calls' = calls + 1
    /\ \/ /\ Return("start", "False", "not found")
          /\ UNCHANGED <<process, peer>>
       \/ /\ process' = "Popen"
          /\ peer' = "alive"
          /\ pc' = "start_sleep"
          /\ UNCHANGED <<ret, mainpc, turnText, response_text, tool_calls,
                         waited, elapsed, timeout>>
    /\ UNCHANGED <<coordVars, variant, driver, scenario, wire, emitted,
                   textLog, response_queue, readerpc, running, message_id,
                   session_id, sent, issued, signals, sdCalls, sdInfo,
                   textDeq, resolved, turnStart, turnFrom, badAt, oldReaders>>

\* the reader thread of the latest start_acp_server, if it is running
ReaderThreads == IF readerpc \in {"check", "read"} THEN 1 ELSE 0

\* a start_acp_server that does not check the subprocess after the sleep
StillRunningUnchecked == TRUE

\* start_acp_server's liveness check: not (self.process.poll() is not None)
StillRunning == peer = "alive"

\* after the sleep: the liveness check, then the reader thread is started
StartCheck ==
    /\ pc = "start_sleep"
    /\ IF StillRunning
       THEN /\ readerpc' = "check"
            /\ oldReaders' = oldReaders + ReaderThreads
            /\ Return("start", "True", "started")
       ELSE /\ readerpc' = readerpc
            /\ oldReaders' = oldReaders
            /\ Return("start", "False", "exited")
    /\ UNCHANGED <<coordVars, variant, driver, scenario, process, peer, wire,
                   emitted, textLog, response_queue, running, message_id,
                   session_id, sent, issued, signals, calls, sdCalls, sdInfo,
                   textDeq, resolved, turnStart, turnFrom, badAt>>

\* start_acp_server on a client that has a subprocess already: self.process
\* is overwritten with the new Popen (the earlier subprocess and its pipes
\* are let go) unless Popen raises; the earlier reader thread runs on
StartAgain ==
    /\ MayCall("start")
    /\ process = "Popen"
    /\ calls' = calls + 1
    /\ \/ /\ Return("start", "False", "not found")
          /\ UNCHANGED <<peer, wire>>
       \/ /\ peer' = "alive"
          /\ wire' = <<>>
          /\ pc' = "start_sleep"
          /\ UNCHANGED <<ret, mainpc, turnText, response_text, tool_calls,
                         waited, elapsed, timeout>>
    /\ UNCHANGED <<coordVars, variant, driver, scenario, process, emitted,
                   textLog, response_queue, readerpc, running, message_id,
                   session_id, sent, issued, signals, sdCalls, sdInfo,
                   textDeq, resolved, turnStart, turnFrom, badAt, oldReaders>>

\* an earlier reader thread takes the next line of self.process.stdout
OldReaderRead ==
    /\ oldReaders > 0
    /\ ReaderGoesOn
    /\ wire # <<>>
    /\ wire' = Tail(wire)
    /\ response_queue' = IF IsJson(Head(wire))
                         THEN QueuePut(response_queue, Head(wire))
                         ELSE response_queue
    /\ UNCHANGED <<coordVars, variant, driver, scenario, process, peer,
                   emitted, textLog, readerpc, running, message_id,
                   session_id, pc, waited, elapsed, timeout, response_text,
                   tool_calls, ret, sent, issued, signals, mainpc, calls,
                   sdCalls, sdInfo, textDeq, resolved, turnStart, turnFrom,
                   turnText, badAt, oldReaders>>

\* an earlier reader thread finds its while condition false and ends
OldReaderExit ==
    /\ oldReaders > 0
    /\ ~ReaderGoesOn
    /\ oldReaders' = oldReaders - 1
    /\ UNCHANGED <<coordVars, variant, driver, scenario, process, peer, wire,
                   emitted, textLog, response_queue, readerpc, running,
                   message_id, session_id, pc, waited, elapsed, timeout,
                   response_text, tool_calls, ret, sent, issued, signals,
                   mainpc, calls, sdCalls, sdInfo, textDeq, resolved,
                   turnStart, turnFrom, turnText, badAt>>

---------------------------------------------------------------------------
(* wait_for_response: time passing in queue.get(timeout=...). *)

WaitLimit ==
    IF pc = "turn_wait"
    THEN (IF variant = "simple" THEN PromptWaitSimple ELSE PromptWaitAdvanced)
    ELSE ResponseWait

Min(a, b) == IF a < b THEN a ELSE b

Tick ==
    /\ pc \in WaitPcs
    /\ response_queue = <<>>
    /\ waited < WaitLimit
    /\ waited' = waited + 1
    /\ elapsed' = IF pc = "turn_wait" /\ variant = "advanced"
                  THEN Min(elapsed + 1, timeout) ELSE elapsed
    /\ UNCHANGED <<coordVars, variant, driver, scenario, process, peer, wire,
                   emitted, textLog, response_queue, readerpc, running,
                   message_id, session_id, pc, timeout, response_text,
                   tool_calls, ret, sent, issued, signals, mainpc, calls,
                   sdCalls, sdInfo, textDeq, resolved, turnStart, turnFrom,
                   turnText, badAt, oldReaders>>

\* queue.get returns the oldest message
Dequeue ==
    /\ response_queue # <<>>
    /\ response_queue' = Tail(response_queue)
    /\ textDeq' = IF IsTextChunk(Head(response_queue)) THEN textDeq + 1
                  ELSE textDeq
    /\ resolved' = resolved \cup ({Head(response_queue).id} \ {0})

\* queue.get raises queue.Empty: nothing arrived within the timeout
WaitExpired == response_queue = <<>> /\ waited >= WaitLimit

---------------------------------------------------------------------------
(* initialize and create_session. *)

\* a request method up to its wait: allocate the id, write the request
SendRequest(op, method, waitpc) ==
    /\ message_id' = get_next_id
    /\ issued' = Append(issued, get_next_id)
    /\ calls' = calls + 1
    /\ IF CanSend
       THEN /\ sent' = Append(sent, Request(method, get_next_id))
            /\ pc' = waitpc
            /\ waited' = 0
            /\ UNCHANGED <<ret, mainpc, turnText, response_text, tool_calls,
                           elapsed, timeout>>
       ELSE /\ sent' = sent
            /\ Return(op, "False", "send failed")

Initialize ==
    /\ MayCall("initialize")
    /\ SendRequest("initialize", "initialize", "init_wait")
    /\ UNCHANGED <<coordVars, variant, driver, scenario, process, peer, wire,
                   emitted, textLog, response_queue, readerpc, running,
                   session_id, signals, sdCalls, sdInfo, textDeq, resolved,
                   turnStart, turnFrom, badAt, oldReaders>>

\* initialize that takes any message but an error for success
InitializeAcceptsNonError(m) == m.k # "error"

\* initialize's verdict on the message it dequeued
InitializeAccepts(m) == m.k = "result"

InitializeRecv ==
    /\ pc = "init_wait"
    /\ Dequeue
    /\ IF InitializeAccepts(Head(response_queue))
       THEN Return("initialize", "True", "result")
       ELSE Return("initialize", "False", "no result")
    /\ UNCHANGED <<coordVars, variant, driver, scenario, process, peer, wire,
                   emitted, textLog, readerpc, running, message_id,
                   session_id, sent, issued, signals, calls, sdCalls, sdInfo,
                   turnStart, turnFrom, badAt, oldReaders>>

InitializeTimeout ==
    /\ pc = "init_wait"
    /\ WaitExpired
    /\ Return("initialize", "False", "wait timeout")
    /\ UNCHANGED <<coordVars, variant, driver, scenario, process, peer, wire,
                   emitted, textLog, response_queue, readerpc, running,
                   message_id, session_id, sent, issued, signals, calls,
                   sdCalls, sdInfo, textDeq, resolved, turnStart, turnFrom,
                   badAt, oldReaders>>

CreateSession ==
    /\ MayCall("create_session")
    /\ SendRequest("create_session", "session/new", "sess_wait")
    /\ UNCHANGED <<coordVars, variant, driver, scenario, process, peer, wire,
                   emitted, textLog, response_queue, readerpc, running,
                   session_id, signals, sdCalls, sdInfo, textDeq, resolved,
                   turnStart, turnFrom, badAt, oldReaders>>

\* create_session that takes any result for a session
CreateSessionAcceptsAnyResult(m) == m.k = "result"

\* create_session's verdict on the message it dequeued
CreateSessionAccepts(m) == m.k = "result" /\ m.a = "sessionId"

\* create_session that keeps the member's name instead of its value
SessionIdOfMember(m) == m.a

\* response["result"]["sessionId"]
SessionIdOf(m) == m.b

CreateSessionRecv ==
    /\ pc = "sess_wait"
    /\ Dequeue
    /\ IF CreateSessionAccepts(Head(response_queue))
       THEN /\ session_id' = SessionIdOf(Head(response_queue))
            /\ Return("create_session", "True", "result")
       ELSE /\ session_id' = session_id
            /\ Return("create_session", "False", "no session")
    /\ UNCHANGED <<coordVars, variant, driver, scenario, process, peer, wire,
                   emitted, textLog, readerpc, running, message_id, sent,
                   issued, signals, calls, sdCalls, sdInfo, turnStart,
                   turnFrom, badAt, oldReaders>>

CreateSessionTimeout ==
    /\ pc = "sess_wait"
    /\ WaitExpired
    /\ Return("create_session", "False", "wait timeout")
    /\ UNCHANGED <<coordVars, variant, driver, scenario, process, peer, wire,
                   emitted, textLog, response_queue, readerpc, running,
                   message_id, session_id, sent, issued, signals, calls,
                   sdCalls, sdInfo, textDeq, resolved, turnStart, turnFrom,
                   badAt, oldReaders>>

---------------------------------------------------------------------------
(* send_prompt. *)

\* response_text.append(text) that skips a text it already holds
AppendChunkOnce(texts, text) ==
    IF \E i \in 1..Len(texts) : texts[i] = text THEN texts
    ELSE Append(texts, text)

\* response_text.append(text)
AppendChunk(texts, text) == Append(texts, text)

\* the tool_call and tool_call_update branches' writes to tool_calls
\* (AdvancedACPClient only; ACPClient keeps no tool-call state)
TrackToolCall(tc, m) ==
    IF variant # "advanced" THEN tc
    ELSE IF m.k = "tool_call" THEN [tc EXCEPT ![m.a] = "pending"]
    ELSE IF m.k = "tool_call_update" /\ tc[m.a] # "absent"
         THEN [tc EXCEPT ![m.a] = m.b]
    ELSE tc

\* the agent_message_chunk branch
TrackText(texts, m) ==
    IF IsTextChunk(m)
    THEN AppendChunk(texts, m.b) ELSE texts

\* tool_calls[tool_id]['title'] on an id that is not a key: KeyError
RaisesKeyError(m) ==
    /\ variant = "advanced"
    /\ m.k = "tool_call_update"
    /\ m.b \in Statuses
    /\ tool_calls[m.a] = "absent"

\* response.get("method") on a str, an int or a list: AttributeError
RaisesAttributeError(m) == m.k = "non_object"

\* the exception the loop body raises on m
Raised(m) == IF RaisesAttributeError(m) THEN "AttributeError" ELSE "KeyError"

IsUpdate(m) ==
    m.k \in {"agent_message_chunk", "tool_call", "tool_call_update", "plan"}

\* a loop body with no branch for error responses
OutcomeIgnoringErrors(m) ==
    CASE RaisesKeyError(m) \/ RaisesAttributeError(m) -> "raise"
      [] IsUpdate(m) -> "continue"
      [] m.k = "result" /\ m.a = "stopReason" -> "stop"
      [] OTHER -> "continue"

\* what one pass of the loop body does with the message it dequeued
Outcome(m) ==
    CASE RaisesKeyError(m) \/ RaisesAttributeError(m) -> "raise"
      [] IsUpdate(m) -> "continue"
      [] m.k = "result" /\ m.a = "stopReason" -> "stop"
      [] m.k = "error" -> "error"
      [] OTHER -> "continue"

\* the loop condition: while True / while time.time() - start_time < timeout
LoopGoesOn(spent, limit) == variant = "simple" \/ spent < limit

TimeoutChoices ==
    IF variant = "simple" THEN {0}
    ELSE IF driver = "interactive" THEN {DefaultTimeout}
    ELSE TimeoutArgs

SendPrompt ==
    /\ MayCall("send_prompt")
    /\ calls' = calls + 1
    /\ IF session_id = "None"
       THEN /\ Return("send_prompt", "False", "no session")
            /\ UNCHANGED <<message_id, issued, sent, turnStart, turnFrom>>
       ELSE /\ message_id' = get_next_id
            /\ issued' = Append(issued, get_next_id)
            /\ IF ~CanSend
               THEN /\ Return("send_prompt", "False", "send failed")
                    /\ UNCHANGED <<sent, turnStart, turnFrom>>
               ELSE /\ sent' = Append(sent,
                                      PromptRequest(get_next_id, session_id))
                    /\ turnStart' = textDeq
                    /\ turnFrom' = Len(textLog)
                    /\ \E t \in TimeoutChoices :
                          IF LoopGoesOn(0, t)
                          THEN /\ pc' = "turn_wait"
                               /\ timeout' = t
                               /\ waited' = 0
                               /\ elapsed' = 0
                               /\ response_text' = <<>>
                               /\ tool_calls' = NoToolCalls
                               /\ UNCHANGED <<ret, mainpc, turnText>>
                          ELSE ReturnWith("send_prompt", "True", "deadline",
                                          <<>>)
    /\ UNCHANGED <<coordVars, variant, driver, scenario, process, peer, wire,
                   emitted, textLog, response_queue, readerpc, running,
                   session_id, signals, sdCalls, sdInfo, textDeq, resolved,
                   badAt, oldReaders>>

TurnRecv ==
    /\ pc = "turn_wait"
    /\ Dequeue
    /\ LET m == Head(response_queue)
           texts == TrackText(response_text, m)
       IN  CASE Outcome(m) = "raise" ->
                    Return("send_prompt", "raise", Raised(m))
             [] Outcome(m) = "stop" ->
                    Return("send_prompt", "True", "stop")
             [] Outcome(m) = "error" ->
                    Return("send_prompt", "False", "error")
             [] OTHER ->
                    IF LoopGoesOn(elapsed, timeout)
                    THEN /\ response_text' = texts
                         /\ tool_calls' = TrackToolCall(tool_calls, m)
                         /\ waited' = 0
                         /\ UNCHANGED <<pc, ret, mainpc, turnText, elapsed,
                                        timeout>>
                    ELSE ReturnWith("send_prompt", "True", "deadline", texts)
    /\ UNCHANGED <<coordVars, variant, driver, scenario, process, peer, wire,
                   emitted, textLog, readerpc, running, message_id,
                   session_id, sent, issued, signals, calls, sdCalls, sdInfo,
                   turnStart, turnFrom, badAt, oldReaders>>

\* a send_prompt that ends the reader thread when it gives up
TurnTimeoutStopsReader ==
    /\ pc = "turn_wait"
    /\ WaitExpired
    /\ Return("send_prompt", "False", "wait timeout")
    /\ readerpc' = "done"
    /\ UNCHANGED <<coordVars, variant, driver, scenario, process, peer, wire,
                   emitted, textLog, response_queue, running, message_id,
                   session_id, sent, issued, signals, calls, sdCalls, sdInfo,
                   textDeq, resolved, turnStart, turnFrom, badAt, oldReaders>>

\* wait_for_response returned None: "Timeout waiting for response"
TurnTimeout ==
    /\ pc = "turn_wait"
    /\ WaitExpired
    /\ Return("send_prompt", "False", "wait timeout")
    /\ UNCHANGED <<coordVars, variant, driver, scenario, process, peer, wire,
                   emitted, textLog, response_queue, readerpc, running,
                   message_id, session_id, sent, issued, signals, calls,
                   sdCalls, sdInfo, textDeq, resolved, turnStart, turnFrom,
                   badAt, oldReaders>>

---------------------------------------------------------------------------
(* shutdown. *)

\* self.process.poll() is None
PollIsNone == peer = "alive"

\* history: one terminate() or kill() call, and the state it was made in
Signal(sig) ==
    [sig |-> sig, sd |-> sdCalls,
     exitWritten |-> sent # <<>> /\ sent[Len(sent)] = ExitMessage,
     alive |-> peer = "alive"]

\* a shutdown that does not look at self.process first
HasStdinUnchecked == TRUE

\* shutdown's guard: self.process and self.process.stdin
HasStdin == process = "Popen"

\* running = False; the exit message; then the sleep
ShutdownCall ==
    /\ MayCall("shutdown")
    /\ calls' = calls + 1
    /\ sdCalls' = sdCalls + 1
    /\ running' = IF variant = "advanced" THEN FALSE ELSE running
    /\ sdInfo' = [afterShutdown |-> ret.op = "shutdown",
                  peerExited |-> peer = "exited",
                  signalled |-> 0]
    /\ IF HasStdin
       THEN /\ sent' = IF CanSend THEN Append(sent, ExitMessage) ELSE sent
            /\ pc' = "sd_grace"
            /\ UNCHANGED <<ret, mainpc, turnText, response_text, tool_calls,
                           waited, elapsed, timeout>>
       ELSE /\ sent' = sent
            /\ Return("shutdown", "None", "no process")
    /\ UNCHANGED <<coordVars, variant, driver, scenario, process, peer, wire,
                   emitted, textLog, response_queue, readerpc, message_id,
                   session_id, issued, signals, textDeq, resolved, turnStart,
                   turnFrom, badAt, oldReaders>>

\* shutdown that calls terminate() without asking poll() first
ShutdownTerminateNoPoll ==
    /\ pc = "sd_grace"
    /\ signals' = Append(signals, Signal("terminate"))
    /\ sdInfo' = [sdInfo EXCEPT !.signalled = @ + 1]
    /\ pc' = "sd_wait"
    /\ UNCHANGED <<coordVars, variant, driver, scenario, process, peer, wire,
                   emitted, textLog, response_queue, readerpc, running,
                   message_id, session_id, waited, elapsed, timeout,
                   response_text, tool_calls, ret, sent, issued, mainpc,
                   calls, sdCalls, textDeq, resolved, turnStart, turnFrom,
                   turnText, badAt, oldReaders>>

\* after the first sleep: terminate() if poll() is None
ShutdownTerminate ==
    /\ pc = "sd_grace"
    /\ IF PollIsNone
       THEN /\ signals' = Append(signals, Signal("terminate"))
            /\ sdInfo' = [sdInfo EXCEPT !.signalled = @ + 1]
            /\ pc' = "sd_wait"
            /\ UNCHANGED <<ret, mainpc, turnText, response_text, tool_calls,
                           waited, elapsed, timeout>>
       ELSE /\ UNCHANGED <<signals, sdInfo>>
            /\ Return("shutdown", "None", "exited")
    /\ UNCHANGED <<coordVars, variant, driver, scenario, process, peer, wire,
                   emitted, textLog, response_queue, readerpc, running,
                   message_id, session_id, sent, issued, calls, sdCalls,
                   textDeq, resolved, turnStart, turnFrom, badAt, oldReaders>>

\* shutdown that calls kill() without asking poll() first
ShutdownKillNoPoll ==
    /\ pc = "sd_wait"
    /\ signals' = Append(signals, Signal("kill"))
    /\ sdInfo' = [sdInfo EXCEPT !.signalled = @ + 1]
    /\ peer' = "exited"
    /\ Return("shutdown", "None", "killed")
    /\ UNCHANGED <<coordVars, variant, driver, scenario, process, wire,
                   emitted, textLog, response_queue, readerpc, running,
                   message_id, session_id, sent, issued, calls, sdCalls,
                   textDeq, resolved, turnStart, turnFrom, badAt, oldReaders>>

\* after the second sleep: kill() if poll() is None
ShutdownKill ==
    /\ pc = "sd_wait"
    /\ IF PollIsNone
       THEN /\ signals' = Append(signals, Signal("kill"))
            /\ sdInfo' = [sdInfo EXCEPT !.signalled = @ + 1]
            /\ peer' = "exited"
            /\ Return("shutdown", "None", "killed")
       ELSE /\ UNCHANGED <<signals, sdInfo, peer>>
            /\ Return("shutdown", "None", "terminated")
    /\ UNCHANGED <<coordVars, variant, driver, scenario, process, wire,
                   emitted, textLog, response_queue, readerpc, running,
                   message_id, session_id, sent, issued, calls, sdCalls,
                   textDeq, resolved, turnStart, turnFrom, badAt, oldReaders>>

---------------------------------------------------------------------------
(* main(): the try body is left early by SIGINT (KeyboardInterrupt in      *)
(* acp_client.py, sys.exit(0) from signal_handler in                       *)
(* advanced_acp_client.py); either way the finally clause runs next.       *)

Interrupt ==
    /\ driver \in MainDrivers
    /\ mainpc \notin {"shutdown", "done"}
    /\ pc' = "idle"
    /\ mainpc' = "shutdown"
    /\ ret' = [op |-> "main", val |-> "raise", why |-> "interrupt",
               by |-> -1, dup |-> FALSE, k |-> "none", reason |-> "none"]
    /\ turnText' = IF pc = "turn_wait" THEN response_text ELSE turnText
    /\ response_text' = <<>>
    /\ tool_calls' = NoToolCalls
    /\ waited' = 0
    /\ elapsed' = 0
    /\ timeout' = 0
    /\ UNCHANGED <<coordVars, variant, driver, scenario, process, peer, wire,
                   emitted, textLog, response_queue, readerpc, running,
                   message_id, session_id, sent, issued, signals, calls,
                   sdCalls, sdInfo, textDeq, resolved, turnStart, turnFrom,
                   badAt, oldReaders>>

\* interactive_mode: the user types exit (or input() raises EOFError)
UserExit ==
    /\ driver = "interactive"
    /\ mainpc = "interactive"
    /\ pc = "idle"
    /\ mainpc' = "shutdown"
    /\ UNCHANGED <<coordVars, variant, driver, scenario, process, peer, wire,
                   emitted, textLog, response_queue, readerpc, running,
                   message_id, session_id, pc, waited, elapsed, timeout,
                   response_text, tool_calls, ret, sent, issued, signals,
                   calls, sdCalls, sdInfo, textDeq, resolved, turnStart,
                   turnFrom, turnText, badAt, oldReaders>>

---------------------------------------------------------------------------
(* CodeReviewHarness (code_review_harness.py) and its main().  It keeps    *)
(* server_process (process) and session_id; every request goes over a      *)
(* WebSocket connection of its own: send, then one recv.  mainpc is the     *)
(* step main() is at; message_id holds the last reading of the clock that   *)
(* request ids are taken from.                                              *)

\* the state of the two clients, which the harness does not have
HarnessFrame ==
    UNCHANGED <<coordVars, variant, driver, scenario, wire, emitted, textLog,
                response_queue, readerpc, running, waited, elapsed, timeout,
                response_text, tool_calls, calls, sdCalls, sdInfo, textDeq,
                resolved, turnStart, turnFrom, turnText, badAt, oldReaders>>

\* what the server may answer on a WebSocket connection
WsResponses ==
    {Result(1, "agentInfo", ""), Result(1, "sessionId", "s1"),
     Result(1, "stopReason", "end_turn"), ErrorResponse(1)}

\* send_request's except branch: {"error": str(e)}
WsFailure == Line("error", 0, "exception", "")

\* int(time.time() * 1000): a reading not before the last one
ClockReadings == message_id..MaxClock

\* the method send_request is called with at each step of main()
HarnessMethod ==
    CASE mainpc = "initialize" -> "initialize"
      [] mainpc = "session_new" -> "session/new"
      [] mainpc = "review" -> "session/prompt"
      [] OTHER -> "exit"

HarnessReturn(val, why, m) ==
    ret' = [op |-> mainpc, val |-> val, why |-> why, by |-> m.id,
            dup |-> FALSE, k |-> m.k, reason |-> "none"]

\* what the caller of send_request does with the response it got
HarnessHandle(m) ==
    CASE mainpc = "initialize" ->
            /\ pc' = "idle"
            /\ mainpc' = IF m.k = "error" THEN "cleanup" ELSE "session_new"
            /\ HarnessReturn(IF m.k = "error" THEN "False" ELSE "True",
                             "initialize", m)
            /\ UNCHANGED session_id
      [] mainpc = "session_new" ->
            /\ pc' = "idle"
            /\ IF m.k = "result" /\ m.a = "sessionId"
               THEN /\ session_id' = m.b
                    /\ mainpc' = "review"
                    /\ HarnessReturn("True", "session", m)
               ELSE /\ session_id' = session_id
                    /\ mainpc' = "cleanup"
                    /\ HarnessReturn("False", "no session", m)
      [] mainpc = "review" ->
            /\ pc' = "idle"
            /\ mainpc' = "cleanup"
            /\ HarnessReturn(IF m.k = "error" THEN "False" ELSE "True",
                             "review", m)
            /\ UNCHANGED session_id
      [] OTHER ->
            /\ pc' = "cl_terminate"
            /\ mainpc' = mainpc
            /\ HarnessReturn("None", "exit", m)
            /\ UNCHANGED session_id

\* start_acp_server: Popen raises, or the subprocess starts
HarnessStart ==
    /\ variant = "harness"
    /\ mainpc = "start"
    /\ pc = "idle"
    /\ \/ /\ mainpc' = "cleanup"
          /\ HarnessReturn("False", "not found", WsFailure)
          /\ UNCHANGED <<process, peer, pc>>
       \/ /\ process' = "Popen"
          /\ peer' = "alive"
          /\ pc' = "start_sleep"
          /\ UNCHANGED <<mainpc, ret>>
    /\ UNCHANGED <<session_id, sent, message_id, issued, signals>>
    /\ HarnessFrame

\* start_acp_server after the sleep: server_process.poll() is None
HarnessStartCheck ==
    /\ variant = "harness"
    /\ pc = "start_sleep"
    /\ pc' = "idle"
    /\ IF PollIsNone
       THEN /\ mainpc' = "initialize"
            /\ HarnessReturn("True", "started", WsFailure)
       ELSE /\ mainpc' = "cleanup"
            /\ HarnessReturn("False", "exited", WsFailure)
    /\ UNCHANGED <<process, peer, session_id, sent, message_id, issued,
                   signals>>
    /\ HarnessFrame

\* send_request up to its recv: the connection fails, or the request is
\* sent with the clock's reading as its id
HarnessSendRequest ==
    /\ variant = "harness"
    /\ pc = "idle"
    /\ \/ mainpc \in {"initialize", "session_new", "review"}
       \/ mainpc = "cleanup" /\ session_id # "None"
    /\ \/ /\ HarnessHandle(WsFailure)
          /\ UNCHANGED <<sent, message_id, issued>>
       \/ \E t \in ClockReadings :
             /\ message_id' = t
             /\ issued' = Append(issued, t)
             /\ sent' = Append(sent, IF mainpc = "review"
                                     THEN PromptRequest(t, session_id)
                                     ELSE Request(HarnessMethod, t))
             /\ pc' = "ws_recv"
             /\ UNCHANGED <<mainpc, ret, session_id>>
    /\ UNCHANGED <<process, peer, signals>>
    /\ HarnessFrame

\* await websocket.recv(): a message arrives, or the connection is closed
HarnessRecv ==
    /\ variant = "harness"
    /\ pc = "ws_recv"
    /\ \E m \in WsResponses \cup {WsFailure} : HarnessHandle(m)
    /\ UNCHANGED <<process, peer, sent, message_id, issued, signals>>
    /\ HarnessFrame

\* cleanup with no session: straight to the termination steps
HarnessCleanup ==
    /\ variant = "harness"
    /\ mainpc = "cleanup"
    /\ pc = "idle"
    /\ session_id = "None"
    /\ pc' = "cl_terminate"
    /\ UNCHANGED <<process, peer, session_id, mainpc, ret, sent, message_id,
                   issued, signals>>
    /\ HarnessFrame

\* cleanup: server_process.terminate(), then the sleep
HarnessTerminate ==
    /\ variant = "harness"
    /\ pc = "cl_terminate"
    /\ IF process = "Popen"
       THEN /\ pc' = "cl_sleep"
            /\ signals' = IF PollIsNone
                          THEN Append(signals, Signal("terminate"))
                          ELSE signals
            /\ UNCHANGED mainpc
       ELSE /\ pc' = "idle"
            /\ mainpc' = "done"
            /\ UNCHANGED signals
    /\ UNCHANGED <<process, peer, session_id, ret, sent, message_id, issued>>
    /\ HarnessFrame

\* cleanup after the sleep: kill() if poll() is None
HarnessKill ==
    /\ variant = "harness"
    /\ pc = "cl_sleep"
    /\ pc' = "idle"
    /\ mainpc' = "done"
    /\ IF PollIsNone
       THEN /\ signals' = Append(signals, Signal("kill"))
            /\ peer' = "exited"
       ELSE UNCHANGED <<signals, peer>>
    /\ UNCHANGED <<process, session_id, ret, sent, message_id, issued>>
    /\ HarnessFrame

\* KeyboardInterrupt in main()'s try body
HarnessInterrupt ==
    /\ variant = "harness"
    /\ mainpc \in {"start", "initialize", "session_new", "review"}
    /\ pc' = "idle"
    /\ mainpc' = "cleanup"
    /\ UNCHANGED <<process, peer, session_id, ret, sent, message_id, issued,
                   signals>>
    /\ HarnessFrame

---------------------------------------------------------------------------
(* The specifications. *)

NoReturn ==
    [op |-> "none", val |-> "None", why |-> "none", by |-> -1, dup |-> FALSE,
     k |-> "none", reason |-> "none"]

NoShutdown ==
    [afterShutdown |-> FALSE, peerExited |-> FALSE, signalled |-> 0]

\* the state after ACPClient() / AdvancedACPClient(), before the first call
Constructed ==
    /\ variant \in {"simple", "advanced"}
    /\ driver \in {"main", "interactive", "free"}
    /\ driver = "interactive" => variant = "advanced"
    /\ scenario = "lifecycle"
    /\ process = "None"
    /\ peer = "none"
    /\ wire = <<>>
    /\ emitted = 0
    /\ textLog = <<>>
    /\ response_queue = <<>>
    /\ readerpc = "none"
    /\ running = TRUE
    /\ message_id = 0
    /\ session_id = "None"
    /\ pc = "idle"
    /\ waited = 0
    /\ elapsed = 0
    /\ timeout = 0
    /\ response_text = <<>>
    /\ tool_calls = NoToolCalls
    /\ ret = NoReturn
    /\ sent = <<>>
    /\ issued = <<>>
    /\ signals = <<>>
    /\ mainpc = IF driver = "free" THEN "free" ELSE "start"
    /\ calls = 0
    /\ sdCalls = 0
    /\ sdInfo = NoShutdown
    /\ textDeq = 0
    /\ resolved = {}
    /\ turnStart = 0
    /\ turnText = <<>>
    /\ badAt = {}
    /\ turnFrom = 0
    /\ oldReaders = 0
    /\ NoCoordinator

\* main() of acp_client.py and of advanced_acp_client.py
Init == Constructed /\ driver \in MainDrivers

Next ==
    \/ PeerEmit
    \/ PeerExit
    \/ ReaderCheck
    \/ ReaderRead
    \/ StartSpawn
    \/ StartCheck
    \/ Tick
    \/ Initialize
    \/ InitializeRecv
    \/ InitializeTimeout
    \/ CreateSession
    \/ CreateSessionRecv
    \/ CreateSessionTimeout
    \/ SendPrompt
    \/ TurnRecv
    \/ TurnTimeout
    \/ ShutdownCall
    \/ ShutdownTerminate
    \/ ShutdownKill
    \/ Interrupt
    \/ UserExit

Spec == Init /\ [][Next]_vars

\* the client driven method by method, in any order, by an orchestration
\* layer
InitApi == Constructed /\ driver = "free"

NextApi ==
    \/ PeerEmit
    \/ PeerExit
    \/ ReaderCheck
    \/ ReaderRead
    \/ StartSpawn
    \/ StartCheck
    \/ Tick
    \/ Initialize
    \/ InitializeRecv
    \/ InitializeTimeout
    \/ CreateSession
    \/ CreateSessionRecv
    \/ CreateSessionTimeout
    \/ SendPrompt
    \/ TurnRecv
    \/ TurnTimeout
    \/ ShutdownCall
    \/ ShutdownTerminate
    \/ ShutdownKill

SpecApi == InitApi /\ [][NextApi]_vars

\* a client whose handshake has succeeded (initialize answered, then
\* session/new answered with sessionId s1), about to be given prompts
InitTurn ==
    /\ variant \in {"simple", "advanced"}
    /\ driver = "free"
    /\ scenario \in {"text", "tools"}
    /\ process = "Popen"
    /\ peer = "alive"
    /\ wire = <<>>
    /\ emitted = 0
    /\ textLog = <<>>
    /\ response_queue = <<>>
    /\ readerpc = "check"
    /\ running = TRUE
    /\ message_id = 2
    /\ session_id = "s1"
    /\ pc = "idle"
    /\ waited = 0
    /\ elapsed = 0
    /\ timeout = 0
    /\ response_text = <<>>
    /\ tool_calls = NoToolCalls
    /\ ret = [op |-> "create_session", val |-> "True", why |-> "result",
              by |-> 2, dup |-> FALSE, k |-> "result", reason |-> "none"]
    /\ sent = <<Request("initialize", 1), Request("session/new", 2)>>
    /\ issued = <<1, 2>>
    /\ signals = <<>>
    /\ mainpc = "free"
    /\ calls = 0
    /\ sdCalls = 0
    /\ sdInfo = NoShutdown
    /\ textDeq = 0
    /\ resolved = {1, 2}
    /\ turnStart = 0
    /\ turnText = <<>>
    /\ badAt = {}
    /\ turnFrom = 0
    /\ oldReaders = 0
    /\ NoCoordinator

NextTurn ==
    \/ PeerEmit
    \/ PeerExit
    \/ ReaderCheck
    \/ ReaderRead
    \/ Tick
    \/ SendPrompt
    \/ TurnRecv
    \/ TurnTimeout

SpecTurn == InitTurn /\ [][NextTurn]_vars

\* a client with a session, given prompts by a caller, whose peer writes
\* valid JSON of unusual content
InitOdd ==
    /\ variant \in {"simple", "advanced"}
    /\ driver = "free"
    /\ scenario = "odd"
    /\ process = "Popen"
    /\ peer = "alive"
    /\ wire = <<>>
    /\ emitted = 0
    /\ textLog = <<>>
    /\ response_queue = <<>>
    /\ readerpc = "check"
    /\ running = TRUE
    /\ message_id = 2
    /\ session_id = "s1"
    /\ pc = "idle"
    /\ waited = 0
    /\ elapsed = 0
    /\ timeout = 0
    /\ response_text = <<>>
    /\ tool_calls = NoToolCalls
    /\ ret = [op |-> "create_session", val |-> "True", why |-> "result",
              by |-> 2, dup |-> FALSE, k |-> "result", reason |-> "none"]
    /\ sent = <<Request("initialize", 1), Request("session/new", 2)>>
    /\ issued = <<1, 2>>
    /\ signals = <<>>
    /\ mainpc = "free"
    /\ calls = 0
    /\ sdCalls = 0
    /\ sdInfo = NoShutdown
    /\ textDeq = 0
    /\ resolved = {1, 2}
    /\ turnStart = 0
    /\ turnText = <<>>
    /\ badAt = {}
    /\ turnFrom = 0
    /\ oldReaders = 0
    /\ NoCoordinator

NextOdd ==
    \/ PeerEmit
    \/ PeerExit
    \/ ReaderCheck
    \/ ReaderRead
    \/ Tick
    \/ SendPrompt
    \/ TurnRecv
    \/ TurnTimeout

SpecOdd == InitOdd /\ [][NextOdd]_vars

\* a client with a session, given prompts by a caller, whose peer may stream
\* notifications without end
InitStream ==
    /\ variant \in {"simple", "advanced"}
    /\ driver = "free"
    /\ scenario = "stream"
    /\ process = "Popen"
    /\ peer = "alive"
    /\ wire = <<>>
    /\ emitted = 0
    /\ textLog = <<>>
    /\ response_queue = <<>>
    /\ readerpc = "check"
    /\ running = TRUE
    /\ message_id = 2
    /\ session_id = "s1"
    /\ pc = "idle"
    /\ waited = 0
    /\ elapsed = 0
    /\ timeout = 0
    /\ response_text = <<>>
    /\ tool_calls = NoToolCalls
    /\ ret = [op |-> "create_session", val |-> "True", why |-> "result",
              by |-> 2, dup |-> FALSE, k |-> "result", reason |-> "none"]
    /\ sent = <<Request("initialize", 1), Request("session/new", 2)>>
    /\ issued = <<1, 2>>
    /\ signals = <<>>
    /\ mainpc = "free"
    /\ calls = 0
    /\ sdCalls = 0
    /\ sdInfo = NoShutdown
    /\ textDeq = 0
    /\ resolved = {1, 2}
    /\ turnStart = 0
    /\ turnText = <<>>
    /\ badAt = {}
    /\ turnFrom = 0
    /\ oldReaders = 0
    /\ NoCoordinator

NextStream ==
    \/ PeerEmit
    \/ PeerStream
    \/ PeerExit
    \/ ReaderCheck
    \/ ReaderRead
    \/ Tick
    \/ SendPrompt
    \/ TurnRecv
    \/ TurnTimeout

\* the reader thread and the calling thread keep running, and time passes
\* whenever the caller is blocked in queue.get on an empty queue
FairStream ==
    /\ WF_vars(ReaderCheck)
    /\ WF_vars(ReaderRead)
    /\ WF_vars(TurnRecv)
    /\ WF_vars(TurnTimeout)
    /\ SF_vars(Tick)

SpecStream == InitStream /\ [][NextStream]_vars /\ FairStream

\* a client whose first turn (prompt 3) ended in "Timeout waiting for
\* response" and that is about to be given the next prompt
InitLate ==
    /\ variant \in {"simple", "advanced"}
    /\ driver = "free"
    /\ scenario = "late"
    /\ process = "Popen"
    /\ peer = "alive"
    /\ wire = <<>>
    /\ emitted = 0
    /\ textLog = <<>>
    /\ response_queue = <<>>
    /\ readerpc \in {"check", "read"}
    /\ running = TRUE
    /\ message_id = 3
    /\ session_id = "s1"
    /\ pc = "idle"
    /\ waited = 0
    /\ elapsed = 0
    /\ timeout = 0
    /\ response_text = <<>>
    /\ tool_calls = NoToolCalls
    /\ ret = [op |-> "send_prompt", val |-> "False", why |-> "wait timeout",
              by |-> -1, dup |-> FALSE, k |-> "none", reason |-> "none"]
    /\ sent = <<Request("initialize", 1), Request("session/new", 2),
                PromptRequest(3, "s1")>>
    /\ issued = <<1, 2, 3>>
    /\ signals = <<>>
    /\ mainpc = "free"
    /\ calls = 0
    /\ sdCalls = 0
    /\ sdInfo = NoShutdown
    /\ textDeq = 0
    /\ resolved = {1, 2}
    /\ turnStart = 0
    /\ turnText = <<>>
    /\ badAt = {}
    /\ turnFrom = 0
    /\ oldReaders = 0
    /\ NoCoordinator

NextLate ==
    \/ PeerEmit
    \/ PeerExit
    \/ ReaderCheck
    \/ ReaderRead
    \/ Tick
    \/ SendPrompt
    \/ TurnRecv
    \/ TurnTimeout

SpecLate == InitLate /\ [][NextLate]_vars

\* a client on which start_acp_server has returned True, driven method by
\* method in any order, start_acp_server included
InitRestart ==
    /\ variant \in {"simple", "advanced"}
    /\ driver = "free"
    /\ scenario = "lifecycle"
    /\ process = "Popen"
    /\ peer = "alive"
    /\ wire = <<>>
    /\ emitted = 0
    /\ textLog = <<>>
    /\ response_queue = <<>>
    /\ readerpc = "check"
    /\ running = TRUE
    /\ message_id = 0
    /\ session_id = "None"
    /\ pc = "idle"
    /\ waited = 0
    /\ elapsed = 0
    /\ timeout = 0
    /\ response_text = <<>>
    /\ tool_calls = NoToolCalls
    /\ ret = [op |-> "start", val |-> "True", why |-> "started", by |-> -1,
              dup |-> FALSE, k |-> "none", reason |-> "none"]
    /\ sent = <<>>
    /\ issued = <<>>
    /\ signals = <<>>
    /\ mainpc = "free"
    /\ calls = 0
    /\ sdCalls = 0
    /\ sdInfo = NoShutdown
    /\ textDeq = 0
    /\ resolved = {}
    /\ turnStart = 0
    /\ turnText = <<>>
    /\ badAt = {}
    /\ turnFrom = 0
    /\ oldReaders = 0
    /\ NoCoordinator

NextRestart ==
    \/ PeerEmit
    \/ PeerExit
    \/ ReaderCheck
    \/ ReaderRead
    \/ StartAgain
    \/ StartCheck
    \/ OldReaderRead
    \/ OldReaderExit
    \/ Tick
    \/ Initialize
    \/ InitializeRecv
    \/ InitializeTimeout
    \/ CreateSession
    \/ CreateSessionRecv
    \/ CreateSessionTimeout
    \/ SendPrompt
    \/ TurnRecv
    \/ TurnTimeout
    \/ ShutdownCall
    \/ ShutdownTerminate
    \/ ShutdownKill

SpecRestart == InitRestart /\ [][NextRestart]_vars

\* main() of code_review_harness.py, after CodeReviewHarness()
InitHarness ==
    /\ variant = "harness"
    /\ driver = "main"
    /\ scenario = "lifecycle"
    /\ process = "None"
    /\ peer = "none"
    /\ wire = <<>>
    /\ emitted = 0
    /\ textLog = <<>>
    /\ response_queue = <<>>
    /\ readerpc = "none"
    /\ running = TRUE
    /\ message_id \in 1..MaxClock
    /\ session_id = "None"
    /\ pc = "idle"
    /\ waited = 0
    /\ elapsed = 0
    /\ timeout = 0
    /\ response_text = <<>>
    /\ tool_calls = NoToolCalls
    /\ ret = NoReturn
    /\ sent = <<>>
    /\ issued = <<>>
    /\ signals = <<>>
    /\ mainpc = "start"
    /\ calls = 0
    /\ sdCalls = 0
    /\ sdInfo = NoShutdown
    /\ textDeq = 0
    /\ resolved = {}
    /\ turnStart = 0
    /\ turnText = <<>>
    /\ badAt = {}
    /\ turnFrom = 0
    /\ oldReaders = 0
    /\ NoCoordinator

NextHarness ==
    \/ PeerExit
    \/ HarnessStart
    \/ HarnessStartCheck
    \/ HarnessSendRequest
    \/ HarnessRecv
    \/ HarnessCleanup
    \/ HarnessTerminate
    \/ HarnessKill
    \/ HarnessInterrupt

SpecHarness == InitHarness /\ [][NextHarness]_vars

---------------------------------------------------------------------------
(* MultiAgentCoordinator (multi_agent_coordinator.py).  mainpc is the      *)
(* statement execute_project_analysis is at: "call" before it is called,   *)
(* "gather" while _execute_parallel_tasks awaits asyncio.gather,           *)
(* "synthesis" while it awaits the coordinator's execute_task, then        *)
(* "returned" or "raised".                                                 *)

\* the (agent, task) pairs execute_project_analysis passes on: the agent's
\* agent_id and the task's agent_id
agent_task_pairs ==
    <<[agent |-> "code_analyzer", task |-> "task_1"],
      [agent |-> "security_expert", task |-> "task_2"],
      [agent |-> "performance_expert", task |-> "task_3"],
      [agent |-> "doc_specialist", task |-> "task_4"]>>

Positions == 1..Len(agent_task_pairs)

\* how one run of SpecializedAgent.execute_task may end: return code 0,
\* another return code, an exception caught by its handler, an exception
\* that leaves it
TaskOutcomes == {"success", "failed", "error", "raised"}

\* what execute_task of `agent` on `task` returns or raises
execute_task(agent, task, outcome) ==
    CASE outcome = "success" ->
            ResultObject("AgentResult", agent, task, TRUE, "")
      [] outcome = "failed" ->
            ResultObject("AgentResult", agent, task, FALSE, "stderr")
      [] outcome = "error" ->
            ResultObject("AgentResult", agent, task, FALSE, "exception")
      [] OTHER -> ResultObject("Exception", "", "", FALSE, "exception")

\* f"task_{i}" for the index i = n - 1 of enumerate
TaskName(n) == <<"task_0", "task_1", "task_2", "task_3">>[n]

\* a gather that returns as soon as one of the coroutines has ended
GatherDoneFirst == \E i \in Positions : tasks[i] = "done"

\* await asyncio.gather(*tasks, return_exceptions=True) is over: every
\* coroutine has returned or raised
GatherDone == \A i \in Positions : tasks[i] = "done"

\* a gather whose list is in the order the coroutines ended
GatherAsCompleted == [i \in Positions |-> results[finished[i]]]

\* the list asyncio.gather returns: in the order of its arguments
Gather == [i \in Positions |-> results[i]]

\* the loop over enumerate(results) building processed_results
ProcessResults(gathered) ==
    [i \in Positions |->
        IF gathered[i].kind = "Exception"
        THEN ResultObject("AgentResult", agent_task_pairs[i].agent,
                          TaskName(i), FALSE, "exception")
        ELSE gathered[i]]

\* a count that leaves the synthesis out
SuccessfulSpecialists(specialists, synthesis) ==
    Cardinality({i \in 1..Len(specialists) : specialists[i].success})

\* sum(1 for r in specialist_results + [coordinator_result] if r.success)
SuccessfulTasks(specialists, synthesis) ==
    LET all == Append(specialists, synthesis)
    IN  Cardinality({i \in 1..Len(all) : all[i].success})

CoordinatorFrame ==
    UNCHANGED <<variant, driver, scenario, process, peer, wire, emitted,
                textLog, response_queue, readerpc, running, message_id,
                session_id, pc, waited, elapsed, timeout, response_text,
                tool_calls, ret, sent, issued, signals, calls, sdCalls,
                sdInfo, textDeq, resolved, turnStart, turnFrom, turnText,
                badAt, oldReaders>>

\* execute_project_analysis up to the await in _execute_parallel_tasks: the
\* coroutines are created and handed to asyncio.gather
ExecuteParallelTasks ==
    /\ variant = "coordinator"
    /\ mainpc = "call"
    /\ mainpc' = "gather"
    /\ tasks' = [i \in Positions |-> "scheduled"]
    /\ results' = [i \in Positions |-> NoResult]
    /\ UNCHANGED <<started, finished, specialist_results, coordinator_result,
                   execution_summary>>
    /\ CoordinatorFrame

\* the event loop starts the next scheduled coroutine: execute_task runs up
\* to its first await
TaskStart ==
    /\ variant = "coordinator"
    /\ \E i \in DOMAIN tasks :
          /\ tasks[i] = "scheduled"
          /\ \A j \in 1..(i - 1) : tasks[j] # "scheduled"
          /\ tasks' = [tasks EXCEPT ![i] = "running"]
          /\ started' = Append(started, agent_task_pairs[i].agent)
    /\ UNCHANGED <<results, finished, specialist_results, coordinator_result,
                   execution_summary, mainpc>>
    /\ CoordinatorFrame

\* one of the running coroutines ends
TaskFinish ==
    /\ variant = "coordinator"
    /\ \E i \in DOMAIN tasks, outcome \in TaskOutcomes :
          /\ tasks[i] = "running"
          /\ tasks' = [tasks EXCEPT ![i] = "done"]
          /\ results' = [results EXCEPT ![i] =
                            execute_task(agent_task_pairs[i].agent,
                                         agent_task_pairs[i].task, outcome)]
          /\ finished' = Append(finished, i)
    /\ UNCHANGED <<started, specialist_results, coordinator_result,
                   execution_summary, mainpc>>
    /\ CoordinatorFrame

\* gather returns; _execute_parallel_tasks processes the list and returns;
\* execute_project_analysis builds the synthesis task and runs the
\* coordinator's execute_task up to its first await
GatherReturn ==
    /\ variant = "coordinator"
    /\ mainpc = "gather"
    /\ GatherDone
    /\ specialist_results' = ProcessResults(Gather)
    /\ started' = Append(started, "coordinator")
    /\ mainpc' = "synthesis"
    /\ UNCHANGED <<tasks, results, finished, coordinator_result,
                   execution_summary>>
    /\ CoordinatorFrame

\* the coordinator's execute_task ends; execute_project_analysis returns
\* the dict, or the exception leaves it
SynthesisFinish ==
    /\ variant = "coordinator"
    /\ mainpc = "synthesis"
    /\ \E outcome \in TaskOutcomes :
          LET r == execute_task("coordinator", "synthesis", outcome)
          IN  IF r.kind = "Exception"
              THEN /\ mainpc' = "raised"
                   /\ UNCHANGED <<coordinator_result, execution_summary>>
              ELSE /\ mainpc' = "returned"
                   /\ coordinator_result' = r
                   /\ execution_summary' =
                         [total_agents |-> 5,
                          successful_tasks |->
                              SuccessfulTasks(specialist_results, r)]
    /\ UNCHANGED <<tasks, results, started, finished, specialist_results>>
    /\ CoordinatorFrame

\* the state after MultiAgentCoordinator(), before execute_project_analysis
InitCoordinator ==
    /\ variant = "coordinator"
    /\ driver = "main"
    /\ scenario = "lifecycle"
    /\ process = "None"
    /\ peer = "none"
    /\ wire = <<>>
    /\ emitted = 0
    /\ textLog = <<>>
    /\ response_queue = <<>>
    /\ readerpc = "none"
    /\ running = TRUE
    /\ message_id = 0
    /\ session_id = "None"
    /\ pc = "idle"
    /\ waited = 0
    /\ elapsed = 0
    /\ timeout = 0
    /\ response_text = <<>>
    /\ tool_calls = NoToolCalls
    /\ ret = NoReturn
    /\ sent = <<>>
    /\ issued = <<>>
    /\ signals = <<>>
    /\ mainpc = "call"
    /\ calls = 0
    /\ sdCalls = 0
    /\ sdInfo = NoShutdown
    /\ textDeq = 0
    /\ resolved = {}
    /\ turnStart = 0
    /\ turnText = <<>>
    /\ badAt = {}
    /\ turnFrom = 0
    /\ oldReaders = 0
    /\ NoCoordinator

NextCoordinator ==
    \/ ExecuteParallelTasks
    \/ TaskStart
    \/ TaskFinish
    \/ GatherReturn
    \/ SynthesisFinish

SpecCoordinator == InitCoordinator /\ [][NextCoordinator]_vars

---------------------------------------------------------------------------
(* Properties. *)

\* C1: the ids get_next_id returns start at 1 and are strictly increasing,
\* hence pairwise distinct and never reused, also when a send failed after
\* the id was allocated; the requests written carry them in that order.
C1_IdsStrictlyIncreasing ==
    /\ issued # <<>> => issued[1] = 1
    /\ \A i, j \in 1..Len(issued) : i < j => issued[i] < issued[j]
    /\ \A i, j \in 1..Len(sent) :
          (i < j /\ sent[i].id # 0 /\ sent[j].id # 0)
              => sent[i].id < sent[j].id
    /\ \A i \in 1..Len(sent) :
          sent[i].id # 0 => \E j \in 1..Len(issued) : issued[j] = sent[i].id

\* id 1 went to a request whose send failed, id 2 to one that was written
C1_Witness ==
    /\ issued = <<1, 2>>
    /\ \A i \in 1..Len(sent) : sent[i].id # 1
    /\ \E i \in 1..Len(sent) : sent[i].id = 2

\* C2: initialize() and create_session() decide their outcome from a
\* message whose id equals the id of their own request.
C2_OutcomeFromOwnId ==
    (pc = "idle" /\ ret.op \in {"initialize", "create_session"}
                 /\ ret.by # -1)
        => ret.by = message_id

\* C3: a second response carrying an id that was already resolved decides
\* the outcome of no later request or turn.
C3_DuplicateDecidesNothing == ret.by > 0 => ~ret.dup

\* history: the text chunks dequeued since the current turn was started
TurnTextSoFar == SubSeq(textLog, turnStart + 1, textDeq)

\* C4: during a turn and when it returns, response_text is exactly the text
\* chunks the peer wrote and the turn dequeued, in the order written: none
\* reordered, dropped or merged with an equal one.
C4_ChunksInWireOrder ==
    /\ pc = "turn_wait" => response_text = TurnTextSoFar
    /\ (pc = "idle" /\ ret.op = "send_prompt"
                    /\ ret.why \notin {"no session", "send failed"})
          => turnText = TurnTextSoFar

\* a turn that ended with a stop reason after two chunks with the same text
C4_Witness ==
    /\ pc = "idle"
    /\ ret.op = "send_prompt"
    /\ ret.why = "stop"
    /\ turnText = <<"a", "a">>

Rank(status) ==
    CASE status = "absent" -> 0
      [] status = "pending" -> 1
      [] status = "in_progress" -> 2
      [] OTHER -> 3

\* C5: within a turn no step makes the status recorded for a tool call
\* regress (completed back to in_progress, or any status back to pending).
C5_StatusNeverRegresses ==
    [][(pc = "turn_wait" /\ pc' = "turn_wait")
          => \A t \in ToolIds :
                 Rank(tool_calls'[t]) >= Rank(tool_calls[t])]_vars

\* C6: a turn that ended by timeout after receiving text chunks still holds
\* the chunks it received.
C6_TimeoutKeepsPartialText ==
    (pc = "idle" /\ ret.op = "send_prompt"
                 /\ ret.why \in {"wait timeout", "deadline"})
        => response_text = turnText

\* C7: send_prompt returns True only if it dequeued a response carrying
\* result.stopReason.
C7_SuccessOnlyOnStopReason ==
    (ret.op = "send_prompt" /\ ret.val = "True") => ret.why = "stop"

\* C8: a shutdown() called right after a shutdown() that returned, or called
\* when the subprocess had already exited, sends no terminate or kill,
\* raises nothing, and none of its steps waits for anything.
C8_RepeatedShutdownIsInert ==
    /\ (sdInfo.afterShutdown \/ sdInfo.peerExited) => sdInfo.signalled = 0
    /\ ret.op = "shutdown" => ret.val = "None"
    /\ pc = "sd_grace" => ENABLED ShutdownTerminate
    /\ pc = "sd_wait" => ENABLED ShutdownKill

\* the second of two shutdowns in a row has returned; the first one had
\* terminated a started subprocess
C8_Witness ==
    /\ pc = "idle"
    /\ sdCalls = 2
    /\ ret.op = "shutdown"
    /\ sdInfo.afterShutdown
    /\ process = "Popen"
    /\ Len(signals) >= 1

\* C9: main() invokes shutdown() exactly once on every run: never before
\* the try body is left, once when it is left, and main ends only after it.
C9_ShutdownExactlyOnce ==
    /\ mainpc \notin {"shutdown", "done"} => sdCalls = 0
    /\ mainpc = "shutdown" => sdCalls = (IF pc = "idle" THEN 0 ELSE 1)
    /\ mainpc = "done" => sdCalls = 1

\* main() has ended after a step of the handshake failed
C9_Witness ==
    /\ mainpc = "done"
    /\ sdCalls = 1
    /\ process = "Popen"
    /\ session_id = "None"
    /\ message_id = 2

\* C10: shutdown() of a started client signals in order: terminate only
\* after the exit message and the first sleep and only to a live subprocess,
\* kill only after this shutdown's terminate and only to a live subprocess.
C10_ShutdownStepsInOrder ==
    /\ \A i \in 1..Len(signals) :
          /\ signals[i].alive
          /\ signals[i].exitWritten
          /\ signals[i].sig = "kill" =>
                /\ i > 1
                /\ signals[i - 1].sig = "terminate"
                /\ signals[i - 1].sd = signals[i].sd
          /\ signals[i].sig = "terminate" =>
                (i > 1 => signals[i - 1].sd < signals[i].sd)
    /\ pc = "sd_grace" => sdInfo.signalled = 0
    /\ pc = "sd_wait" =>
          /\ sdInfo.signalled = 1
          /\ signals[Len(signals)].sig = "terminate"

\* a shutdown that had to go as far as kill
C10_Witness ==
    /\ pc = "idle"
    /\ ret.op = "shutdown"
    /\ Len(signals) = 2
    /\ signals[2].sig = "kill"

\* history: this step writes a request of the given method to the subprocess
Writes(method) ==
    /\ Len(sent') = Len(sent) + 1
    /\ sent'[Len(sent')].method = method

\* C11: main() writes session/new only right after initialize() returned
\* True on a message with a result member; a failed start, initialize or
\* create_session takes main to its finally clause; and from there on
\* nothing is written but the exit message.
C11_HandshakeGates ==
    [][/\ Writes("session/new") =>
             /\ ret.op = "initialize"
             /\ ret.val = "True"
             /\ ret.k = "result"
             /\ \E i \in 1..Len(sent) : sent[i].method = "initialize"
       /\ (ret' # ret /\ ret'.val = "False"
             /\ ret'.op \in {"start", "initialize", "create_session"})
             => mainpc' = "shutdown"
       /\ mainpc \in {"shutdown", "done"} =>
             (sent' = sent \/ sent' = Append(sent, ExitMessage))]_vars

\* initialize() was answered with an error; main went to shutdown, which
\* has written the exit message and nothing else
C11_Witness ==
    /\ mainpc = "shutdown"
    /\ pc = "sd_grace"
    /\ ret.op = "initialize"
    /\ ret.val = "False"
    /\ ret.k = "error"
    /\ sent = <<Request("initialize", 1), ExitMessage>>

\* C12: a session/prompt is written only by a client whose session_id is
\* set and after a session/new was written; session_id is set only by
\* create_session dequeuing a result that carries a sessionId; and a
\* send_prompt called with no session returns False, allocates no id and
\* writes nothing.
C12_NoPromptWithoutSession ==
    /\ [](\A i \in 1..Len(sent) :
            sent[i].method = "session/prompt" =>
                /\ session_id # "None"
                /\ \E j \in 1..(i - 1) : sent[j].method = "session/new")
    /\ [][/\ session_id' # session_id =>
                /\ pc = "sess_wait"
                /\ response_queue # <<>>
                /\ Head(response_queue).k = "result"
                /\ Head(response_queue).a = "sessionId"
                /\ session_id' = Head(response_queue).b
                /\ \E j \in 1..Len(sent) : sent[j].method = "session/new"
          /\ (calls' # calls /\ pc' = "idle" /\ ret'.op = "send_prompt"
                /\ session_id = "None") =>
                /\ ret'.val = "False"
                /\ message_id' = message_id
                /\ issued' = issued
                /\ sent' = sent]_vars

\* send_prompt was called on a started, initialized client that has no
\* session, and refused
C12_Witness ==
    /\ pc = "idle"
    /\ ret.op = "send_prompt"
    /\ ret.why = "no session"
    /\ process = "Popen"
    /\ message_id = 1
    /\ sent = <<Request("initialize", 1)>>

\* C13: when the peer has written exactly a result for id 1 and then a
\* result for id 2 carrying sessionId s1, and create_session has returned
\* on the latter, it returned True, session_id is s1, and main had gone on
\* past the handshake.
C13_HandshakeYieldsSession ==
    (/\ pc = "idle"
     /\ ret.op = "create_session"
     /\ ret.k = "result"
     /\ ret.by = 2
     /\ resolved = {1, 2}
     /\ emitted = 2)
        => /\ ret.val = "True"
           /\ session_id = "s1"
           /\ mainpc \in {"send_prompt", "interactive", "shutdown"}
           /\ mainpc = "shutdown" => driver = "interactive"

\* the handshake of the stated scenario has completed
C13_Witness ==
    /\ pc = "idle"
    /\ ret.op = "create_session"
    /\ ret.by = 2
    /\ resolved = {1, 2}
    /\ emitted = 2
    /\ session_id = "s1"
    /\ sent = <<Request("initialize", 1), Request("session/new", 2)>>

\* C14: a turn that ends on a stop reason after tool call t1 was announced
\* and completed with a text result hands its caller the stop reason as
\* sent and the text as the result of t1.
C14_TurnResultHasToolText ==
    [][(/\ pc = "turn_wait"
        /\ pc' = "idle"
        /\ ret'.op = "send_prompt"
        /\ ret'.why = "stop"
        /\ tool_calls["t1"] = "completed")
          => /\ ret'.val = Head(response_queue).b
             /\ tool_calls'["t1"] = ToolResultText]_vars

\* history: the texts of the text chunks in a sequence of lines
TextsIn(lines) ==
    LET chunks == SelectSeq(lines, IsTextChunk)
    IN  [i \in 1..Len(chunks) |-> chunks[i].b]

\* C15: the reader enqueues nothing for a line that is not JSON and goes
\* back to its loop; it stops only when the subprocess has exited or
\* shutdown has begun; it puts every JSON line it reads at the end of the
\* queue; and the text chunks written are, in order, those dequeued, then
\* those in the queue, then those still in the pipe.
C15_BadLineDoesNotStopReader ==
    /\ [](readerpc = "done" =>
            (peer = "exited" \/ (variant = "advanced" /\ ~running)))
    /\ [](textLog = SubSeq(textLog, 1, textDeq)
                        \o TextsIn(response_queue) \o TextsIn(wire))
    /\ [][(readerpc = "read" /\ wire # <<>> /\ readerpc' # readerpc) =>
             /\ readerpc' = "check"
             /\ wire' = Tail(wire)
             /\ response_queue' =
                   IF IsJson(Head(wire))
                   THEN Append(response_queue, Head(wire))
                   ELSE response_queue]_vars

\* the second of three lines was not JSON; the chunks written before and
\* after it both reached the turn, in order, and the reader is running
C15_Witness ==
    /\ badAt = {2}
    /\ emitted = 3
    /\ textLog = <<"a", "b">>
    /\ pc = "turn_wait"
    /\ response_text = <<"a", "b">>
    /\ readerpc \in {"check", "read"}

\* C16: send_prompt never raises, and so never aborts its turn, on a
\* tool_call_update for a tool-call id that no tool_call announced in this
\* turn.
C16_UnknownToolIdTolerated ==
    ~(pc = "idle" /\ ret.op = "send_prompt" /\ ret.val = "raise"
                  /\ ret.k = "tool_call_update")

\* C17: a turn started after an earlier turn was given up takes no text
\* from chunks the peer wrote before its prompt was sent, and is neither
\* ended nor failed by a response carrying the id of an earlier prompt.
C17_LateMessagesDiscarded ==
    /\ pc = "turn_wait" =>
          response_text = SubSeq(textLog, turnFrom + 1, textDeq)
    /\ (pc = "idle" /\ ret.op = "send_prompt"
                    /\ ret.why \in {"stop", "error"})
          => ~(/\ ret.by < message_id
               /\ \E i \in 1..Len(sent) :
                     /\ sent[i].method = "session/prompt"
                     /\ sent[i].id = ret.by)

\* C18: a turn is ended or failed only by a response that carries the id
\* of the turn's own session/prompt request; a response with any other id
\* is passed over.
C18_UnmatchedResponseDropped ==
    (pc = "idle" /\ ret.op = "send_prompt"
                 /\ ret.why \in {"stop", "error"})
        => ret.by = message_id

\* C19: once the subprocess has exited and the reader has stopped with
\* nothing left in the queue, a caller waiting for a response waits no
\* longer: its wait takes no more time and returns with a connection-closed
\* outcome.
C19_ReaderExitUnblocksWait ==
    [][(/\ pc \in WaitPcs
        /\ readerpc = "done"
        /\ peer = "exited"
        /\ response_queue = <<>>)
          => /\ waited' = waited \/ pc' = "idle"
             /\ (pc' = "idle" /\ ret'.op # "main")
                   => ret'.why = "connection closed"]_vars

\* C20: when the reader stops because the subprocess has exited, no line
\* the subprocess wrote before exiting is left unread in the pipe.
C20_OutputDrainedBeforeReaderStops ==
    (readerpc = "done" /\ peer = "exited" /\ running) => wire = <<>>

\* C21: the step of a turn that dequeues a message with an error member
\* returns False there and then, having taken that one message only and
\* with the text unchanged; a returned send_prompt dequeues nothing.
C21_ErrorReturnsAtOnce ==
    [][/\ (/\ pc = "turn_wait"
           /\ response_queue # <<>>
           /\ Head(response_queue).k = "error"
           /\ Len(response_queue') < Len(response_queue))
             => /\ pc' = "idle"
                /\ ret'.op = "send_prompt"
                /\ ret'.val = "False"
                /\ ret'.why = "error"
                /\ response_queue' = Tail(response_queue)
                /\ turnText' = response_text
       /\ (pc = "idle" /\ pc' = "idle") =>
             /\ textDeq' = textDeq
             /\ resolved' = resolved
             /\ Len(response_queue') >= Len(response_queue)]_vars

\* a turn failed on an error response while a later message of the turn
\* was already in the queue; that message is still there
C21_Witness ==
    /\ pc = "idle"
    /\ ret.op = "send_prompt"
    /\ ret.why = "error"
    /\ ret.k = "error"
    /\ response_queue # <<>>
    /\ turnText = <<"a">>

\* C22: session_id is unset while no session/new has been written; it
\* changes only when create_session accepts a result carrying a sessionId,
\* and then to that value: no turn, timeout, error or shutdown modifies it;
\* and every session/prompt written carries the session_id of that moment.
C22_SessionIdFrame ==
    /\ []((\A i \in 1..Len(sent) : sent[i].method # "session/new")
            => session_id = "None")
    /\ [](\A i \in 1..Len(sent) :
            sent[i].method = "session/prompt" => sent[i].sid = session_id)
    /\ [][/\ session_id' # session_id =>
                /\ pc = "sess_wait"
                /\ response_queue # <<>>
                /\ CreateSessionAccepts(Head(response_queue))
                /\ session_id' = Head(response_queue).b
                /\ ret'.op = "create_session"
                /\ ret'.val = "True"
          /\ Writes("session/prompt") =>
                /\ sent'[Len(sent')].sid = session_id
                /\ session_id # "None"
                /\ session_id' = session_id]_vars

\* a turn on session s1 has timed out; the prompt carried s1 and the
\* client still holds it
C22_Witness ==
    /\ pc = "idle"
    /\ ret.op = "send_prompt"
    /\ ret.why = "wait timeout"
    /\ session_id = "s1"
    /\ \E i \in 1..Len(sent) :
          sent[i].method = "session/prompt" /\ sent[i].sid = "s1"

\* C23: a shutdown() called while process is None returns at once, having
\* written nothing, signalled nothing and spawned nothing.
C23_ShutdownBeforeSpawnIsNoOp ==
    [][(sdCalls' # sdCalls /\ process = "None") =>
          /\ pc' = "idle"
          /\ ret'.op = "shutdown"
          /\ ret'.val = "None"
          /\ sent' = sent
          /\ signals' = signals
          /\ process' = "None"
          /\ peer' = peer
          /\ message_id' = message_id]_vars

\* the executable was missing, then shutdown() was called and has returned
C23_Witness ==
    /\ pc = "idle"
    /\ ret.op = "shutdown"
    /\ ret.why = "no process"
    /\ process = "None"
    /\ peer = "none"
    /\ calls = 2
    /\ issued = <<>>
    /\ sent = <<>>
    /\ signals = <<>>

\* C24: a start_acp_server that finds no executable, or finds the
\* subprocess exited at its liveness check, returns False and starts no
\* reader thread; and while no reader thread was ever started, nothing has
\* been written to a subprocess.
C24_FailedStartStaysNotStarted ==
    /\ [](readerpc = "none" => sent = <<>>)
    /\ []((pc = "idle" /\ ret.op = "start" /\ ret.val = "False")
            => (readerpc = "none" /\ ~CanSend))
    /\ [][/\ (pc = "start_sleep" /\ peer # "alive" /\ pc' = "idle") =>
                /\ ret'.op = "start"
                /\ ret'.val = "False"
                /\ readerpc' = "none"
          /\ (pc = "idle" /\ calls' # calls /\ ret'.op = "start"
                /\ pc' = "idle") =>
                /\ ret'.val = "False"
                /\ process' = "None"
                /\ readerpc' = readerpc]_vars

\* the subprocess had exited by the liveness check; the initialize() called
\* next could write nothing
C24_Witness ==
    /\ pc = "idle"
    /\ ret.op = "initialize"
    /\ ret.why = "send failed"
    /\ process = "Popen"
    /\ peer = "exited"
    /\ readerpc = "none"
    /\ issued = <<1>>
    /\ sent = <<>>

\* C25: at every moment at most one reader thread exists on a client.
C25_AtMostOneReader == oldReaders + ReaderThreads <= 1

\* C28: once a shutdown() of a started client has returned, no initialize,
\* create_session or send_prompt called later on that client returns True.
C28_TerminatedIsAbsorbing ==
    (/\ pc = "idle"
     /\ sdCalls > 0
     /\ ret.op \in {"initialize", "create_session", "send_prompt"})
        => ret.val # "True"

\* C26: the step in which send_prompt returns leaves the reader thread, the
\* running flag and the subprocess as they were; and after a send_prompt
\* that returned False the reader is still in its loop unless the
\* subprocess has exited.
C26_ReaderSurvivesFailedTurn ==
    /\ []((pc = "idle" /\ ret.op = "send_prompt" /\ ret.val = "False"
                       /\ peer = "alive" /\ running)
            => readerpc \in {"check", "read"})
    /\ [][(pc = "turn_wait" /\ pc' = "idle") =>
             /\ readerpc' = readerpc
             /\ running' = running
             /\ process' = process
             /\ peer' = peer
             /\ wire' = wire]_vars

\* a turn timed out on an empty queue; the reader has since enqueued a
\* line the subprocess wrote
C26_Witness ==
    /\ pc = "idle"
    /\ ret.op = "send_prompt"
    /\ ret.val = "False"
    /\ ret.why = "wait timeout"
    /\ peer = "alive"
    /\ readerpc \in {"check", "read"}
    /\ response_queue # <<>>

\* C27: a step that writes to the subprocess's stdin is a step of the
\* caller's thread; a step that takes a line from its stdout is a step of
\* the reader thread; a step that sends terminate or kill is a step of
\* shutdown() in the caller's thread; and a step of the reader thread
\* neither writes to nor signals the subprocess.
C27_ExclusiveOwnership ==
    [][/\ sent' # sent =>
             /\ pc = "idle"
             /\ calls' = calls + 1
             /\ readerpc' = readerpc
       /\ wire' # wire /\ Len(wire') < Len(wire) =>
             /\ readerpc = "read"
             /\ readerpc' = "check"
             /\ pc' = pc
       /\ signals' # signals =>
             /\ pc \in {"sd_grace", "sd_wait"}
             /\ sdCalls > 0
             /\ readerpc' = readerpc
       /\ readerpc' # readerpc /\ readerpc # "none" =>
             /\ sent' = sent
             /\ signals' = signals
             /\ peer' = peer
             /\ pc' = pc]_vars

\* the caller has written requests, the reader has delivered a response,
\* and shutdown() has signalled the subprocess
C27_Witness ==
    /\ pc = "idle"
    /\ ret.op = "shutdown"
    /\ Len(sent) >= 2
    /\ resolved # {}
    /\ Len(signals) >= 1

\* C29: every exit message written carries no id, and no method waits for
\* an answer to one: shutdown goes on to its termination steps whether or
\* not the peer answers.
C29_ExitIsNotification ==
    /\ \A i \in 1..Len(sent) : sent[i].method = "exit" => sent[i].id = 0
    /\ ~(pc \in WaitPcs \cup {"ws_recv"}
          /\ sent # <<>> /\ sent[Len(sent)].method = "exit")

\* C30: AdvancedACPClient.send_prompt gives a turn up for lack of a message
\* only when the time since the prompt was sent has reached the caller's
\* timeout.
C30_TimeoutIsTheCallers ==
    [][(/\ variant = "advanced"
        /\ pc = "turn_wait"
        /\ pc' = "idle"
        /\ ret'.op = "send_prompt"
        /\ ret'.why = "wait timeout")
          => elapsed >= timeout]_vars

\* C31: the ids CodeReviewHarness.send_request gives to the requests of one
\* harness are strictly increasing in the order issued, hence distinct.
C31_HarnessIdsDistinct ==
    variant = "harness" =>
        \A i, j \in 1..Len(sent) : i < j => sent[i].id < sent[j].id

\* a message carrying result.stopReason
HasStopReason(m) == m.k = "result" /\ m.a = "stopReason"

\* C32: a send_prompt that takes a response carrying result.stopReason from
\* the queue returns True at that step, whatever the value of the stop
\* reason, and the stop reason it reports is that value unchanged.
C32_AnyStopReasonEndsTurn ==
    [][(pc = "turn_wait" /\ response_queue # <<>>
          /\ Len(response_queue') < Len(response_queue)
          /\ HasStopReason(Head(response_queue)))
         => /\ pc' = "idle"
            /\ ret'.op = "send_prompt"
            /\ ret'.val = "True"
            /\ ret'.reason = Head(response_queue).b]_vars

\* a turn has ended successfully on a stop reason outside the protocol's set
C32_Witness ==
    /\ pc = "idle"
    /\ ret.op = "send_prompt"
    /\ ret.val = "True"
    /\ ret.reason = "made_up"

\* C34: every item on response_queue is a JSON object, and no call of the
\* client raises, whatever valid JSON the peer writes (a quoted string and a
\* number included).
C34_QueueHoldsObjectsOnly ==
    /\ \A i \in 1..Len(response_queue) : response_queue[i].k # "non_object"
    /\ ret.val # "raise"

\* C33: every call of send_prompt that has started waiting eventually
\* returns, whatever the peer writes, an endless stream of session/update
\* notifications included.
C33_SendPromptReturns == (pc = "turn_wait") ~> (pc = "idle")

\* C35: what _execute_parallel_tasks returns has one AgentResult for each
\* (agent, task) pair, in the order of the pairs: the entry at a position
\* carries the agent_id of the pair at that position, and is the very
\* result the pair's execute_task returned when it returned one, whatever
\* the order in which the tasks ended and whether they failed or raised.
C35_OneResultPerPairInOrder ==
    mainpc \in {"synthesis", "returned", "raised"} =>
        /\ DOMAIN specialist_results = Positions
        /\ \A i \in Positions :
              /\ specialist_results[i].kind = "AgentResult"
              /\ specialist_results[i].agent_id = agent_task_pairs[i].agent
              /\ results[i].kind = "AgentResult"
                    => specialist_results[i] = results[i]
              /\ results[i].kind = "Exception"
                    => ~specialist_results[i].success

\* the tasks ended in the reverse of the order of the pairs, one of them
\* raised and another failed, and _execute_parallel_tasks has returned
C35_Witness ==
    /\ mainpc = "synthesis"
    /\ finished = <<4, 3, 2, 1>>
    /\ results[1].kind = "Exception"
    /\ results[2].error = "stderr"
    /\ results[3].success

\* the number of times execute_task of the coordinator agent has begun
SynthesisStarts ==
    Cardinality({i \in 1..Len(started) : started[i] = "coordinator"})

\* C36: the synthesis task is started only when all four specialist tasks
\* have ended, it is started exactly once also when every specialist
\* failed, and successful_tasks is the number of successful results among
\* the five and is at most total_agents.
C36_SynthesisAfterSpecialists ==
    /\ [][SynthesisStarts' > SynthesisStarts
              => \A i \in Positions : tasks[i] = "done"]_vars
    /\ [](SynthesisStarts =
             IF mainpc \in {"synthesis", "returned", "raised"} THEN 1 ELSE 0)
    /\ [](mainpc = "returned" =>
             /\ execution_summary.successful_tasks =
                   Cardinality({i \in Positions :
                                   specialist_results[i].success})
                   + (IF coordinator_result.success THEN 1 ELSE 0)
             /\ execution_summary.successful_tasks
                   <= execution_summary.total_agents)

\* every specialist failed, the synthesis ran once and succeeded
C36_Witness ==
    /\ mainpc = "returned"
    /\ \A i \in Positions : ~specialist_results[i].success
    /\ SynthesisStarts = 1
    /\ coordinator_result.success
    /\ execution_summary.successful_tasks = 1

=============================================================================
